---- MODULE Spec2Model ----
(***************************************************************************)
(* K-fold cross-validation of polynomial least squares, as performed by    *)
(* notebooks/chapter1/cross_validation.ipynb.                              *)
(*                                                                         *)
(* The notebook is modelled as a state machine: the data-generation cell   *)
(* fixes the inputs (Init), the second code cell computes the fold         *)
(* boundaries (Tile, AdjustLast, CumSum), allocates the design matrices    *)
(* and the loss tables (Alloc) and runs the order/fold sweep (Cell,        *)
(* Extend, Finish).  An exception raised by numpy ends the run.            *)
(*                                                                         *)
(* Arithmetic is exact: every number is an integer or a reduced fraction   *)
(* <<p, q>> with q > 0; <<0, 0>> stands for numpy's nan (mean of nothing). *)
(* The data are integer valued, so the Gram matrices are exact in float64  *)
(* too; rounding inside np.linalg.solve is not represented.                *)
(***************************************************************************)
EXTENDS Integers, Sequences, FiniteSets, TLC

VARIABLES N, K, max_order, x, t, N_test, x_test, t_test,
          sizes, c_sizes, X, X_test, cv_loss, ind_loss, train_loss,
          k, fold, X_fold, X_train, t_fold, t_train, w,
          pc, err, writes

inputs == <<N, K, max_order, x, t, N_test, x_test, t_test>>
cellvars == <<X_fold, X_train, t_fold, t_train, w>>
tables == <<cv_loss, ind_loss, train_loss, writes>>
vars == <<N, K, max_order, x, t, N_test, x_test, t_test,
          sizes, c_sizes, X, X_test, cv_loss, ind_loss, train_loss,
          k, fold, X_fold, X_train, t_fold, t_train, w,
          pc, err, writes>>

(***************************************************************************)
(* Bounds of the model.                                                    *)
(***************************************************************************)
MaxN == 10
MaxK == 12
MaxOrder == 2
MaxNTest == 3
MaxPartN == 22

\* the literal 10 of np.int(N/float(10))
FoldDivisor == 10

(***************************************************************************)
(* Integer and fraction helpers.                                           *)
(***************************************************************************)
Abs(a) == IF a < 0 THEN -a ELSE a

\* Euclid's algorithm on a pair
GcdF[p \in Int \X Int] ==
    IF p[2] = 0 THEN Abs(p[1]) ELSE GcdF[<<p[2], p[1] % Abs(p[2])>>]

Gcd(a, b) == GcdF[<<a, b>>]

RECURSIVE Pow(_, _)
Pow(a, n) == IF n = 0 THEN 1 ELSE a * Pow(a, n - 1)

\* the sum of a sequence of integers
SumF[s \in Seq(Int)] == IF s = <<>> THEN 0 ELSE Head(s) + SumF[Tail(s)]

SeqSum(s) == SumF[s]

NaN == <<0, 0>>
Zero == <<0, 1>>

\* the fraction p/q in lowest terms with a positive denominator; 0/0 is nan
Frac(p, q) ==
    IF q = 0 THEN NaN
    ELSE LET g == Gcd(p, q)
             s == IF q < 0 THEN -1 ELSE 1
         IN  <<s * (p \div g), s * (q \div g)>>

(***************************************************************************)
(* numpy on sequences (vectors) and sequences of rows (matrices).          *)
(***************************************************************************)
Min(a, b) == IF a < b THEN a ELSE b

\* an array given by its entries, as a sequence evaluated once
Array(s) == SubSeq(s, 1, Len(s))

\* np.ones_like(v) for an n-by-1 array: one column of ones
OnesLike(v) == [i \in 1..Len(v) |-> <<1>>]

\* a faulty variant of PowCol: x*(k+1) written for x**(k+1)
PowColMul(v, e) == [i \in 1..Len(v) |-> v[i] * e]

\* v ** e, elementwise (0 ** 0 is 1)
PowCol(v, e) == [i \in 1..Len(v) |-> Pow(v[i], e)]

\* a faulty variant of HStack: X = x**(k+1), the earlier columns dropped
HStackDropped(M, col) == [i \in 1..Len(M) |-> <<col[i]>>]

\* np.hstack((M, col)): one more column at the right of every row
HStack(M, col) == [i \in 1..Len(M) |-> Append(M[i], col[i])]

\* s[lo:hi] with 0 <= lo, 0 <= hi: positions lo..hi-1 that exist, in order
Slice(s, lo, hi) == SubSeq(s, lo + 1, Min(hi, Len(s)))

\* np.arange(lo, hi, 1)
ARange(lo, hi) == {i \in lo..(hi - 1) : TRUE}

\* np.delete(s, idx, 0): the rows whose 0-based position is not in idx, in
\* order; positions past the end are ignored (numpy of the Python 2 kernel)
Delete(s, idx) ==
    LET F[i \in 0..Len(s)] ==
            IF i = 0 THEN <<>>
            ELSE IF (i - 1) \in idx THEN F[i - 1] ELSE Append(F[i - 1], s[i])
    IN  F[Len(s)]

\* np.cumsum(s)
CumSumSeq(s) == [i \in 1..Len(s) |-> SeqSum(SubSeq(s, 1, i))]

\* np.dot(M.T, M) for a matrix of nc columns (nc-by-nc, zero if M has no row)
Gram(M, nc) ==
    Array([i \in 1..nc |-> Array([j \in 1..nc |->
        SeqSum([r \in 1..Len(M) |-> M[r][i] * M[r][j]])])])

\* np.dot(M.T, tv)
DotT(M, tv, nc) ==
    Array([j \in 1..nc |-> SeqSum([r \in 1..Len(M) |-> M[r][j] * tv[r]])])

Minor(A, j) ==
    Array([i \in 1..(Len(A) - 1) |-> Array([c \in 1..(Len(A) - 1) |->
        A[i + 1][IF c < j THEN c ELSE c + 1]])])

\* the determinant, by expansion along the first row
DetF[A \in Seq(Seq(Int))] ==
    IF Len(A) = 0 THEN 1
    ELSE SeqSum([j \in 1..Len(A) |->
            (IF j % 2 = 1 THEN 1 ELSE -1) * A[1][j] * DetF[Minor(A, j)]])

Det(A) == DetF[A]

ReplaceCol(A, j, b) ==
    Array([i \in 1..Len(A) |->
        Array([c \in 1..Len(A) |-> IF c = j THEN b[i] ELSE A[i][c]])])

GcdSeqF[s \in Seq(Int)] ==
    IF s = <<>> THEN 0 ELSE Gcd(Head(s), GcdSeqF[Tail(s)])

GcdSeq(s) == GcdSeqF[s]

\* np.linalg.solve raises LinAlgError exactly when the matrix is singular
Singular(A) == Det(A) = 0

\* Cramer's rule: the numerators of the solution of A w = b over Det(A)
Cramer(A, b) == Array([j \in 1..Len(A) |-> Det(ReplaceCol(A, j, b))])

\* the solution num/D as <<numerators, common denominator>>, in lowest
\* terms, denominator > 0
Reduced(num, D) ==
    LET g == Gcd(D, GcdSeq(num))
        s == IF D < 0 THEN -1 ELSE 1
    IN  <<Array([j \in 1..Len(num) |-> s * (num[j] \div g)]), s * (D \div g)>>

\* row i of np.dot(M, wv) - tv, times the denominator of wv
Residual(M, tv, wv, i) ==
    SeqSum([j \in 1..Len(wv[1]) |-> M[i][j] * wv[1][j]]) - wv[2] * tv[i]

\* ((np.dot(M, wv) - tv)**2).mean(); the mean of no row is nan
MSE(M, tv, wv) ==
    Frac(SeqSum([i \in 1..Len(M) |->
                    Residual(M, tv, wv, i) * Residual(M, tv, wv, i)]),
         wv[2] * wv[2] * Len(M))

(***************************************************************************)
(* The data-generation cell.  The notebook draws x and the noise at        *)
(* random; here the arrays come from a small family of integer patterns    *)
(* over {-1, 0, 1} (so x**3 = x: order 3 is always singular, and a         *)
(* constant x is singular from order 1).                                   *)
(***************************************************************************)
XSeeds == {<<0, 2>>, <<1, 0>>, <<2, 1>>}
TSeeds == {0, 1}

XGen(s, n) == [i \in 1..n |-> ((s[1] * i + s[2]) % 3) - 1]
TGen(c, n) == [i \in 1..n |-> ((c * i * i + i) % 4) - 1]

Init ==
    /\ N \in 1..MaxN
    /\ K \in 0..MaxK
    /\ max_order \in 0..MaxOrder
    /\ x \in {XGen(s, N) : s \in XSeeds}
    /\ t \in {TGen(c, N) : c \in TSeeds}
    /\ N_test = MaxNTest
    /\ x_test = XGen(<<1, 0>>, N_test)
    /\ t_test = TGen(1, N_test)
    /\ sizes = <<>> /\ c_sizes = <<>>
    /\ X = <<>> /\ X_test = <<>>
    /\ cv_loss = <<>> /\ ind_loss = <<>> /\ train_loss = <<>>
    /\ writes = <<>>
    /\ k = 0 /\ fold = 0
    /\ X_fold = <<>> /\ X_train = <<>> /\ t_fold = <<>> /\ t_train = <<>>
    /\ w = <<>>
    /\ pc = "tile" /\ err = "none"

(***************************************************************************)
(* Fold boundaries.                                                        *)
(***************************************************************************)
\* sizes = np.tile(np.int(N/float(10)),(1,K))
Tile ==
    /\ pc = "tile"
    /\ sizes' = [i \in 1..K |-> N \div FoldDivisor]
    /\ pc' = "adjust"
    /\ UNCHANGED <<inputs, c_sizes, X, X_test, tables, k, fold, cellvars, err>>

\* the last fold takes what is left: sizes[0,-1] + N - sizes.sum()
AdjustSizes(sz) == [sz EXCEPT ![Len(sz)] = @ + N - SeqSum(sz)]

\* sizes[0,-1] = sizes[0,-1] + N - sizes.sum()
AdjustLast ==
    /\ pc = "adjust"
    /\ Len(sizes) > 0
    /\ sizes' = AdjustSizes(sizes)
    /\ pc' = "cumsum"
    /\ UNCHANGED <<inputs, c_sizes, X, X_test, tables, k, fold, cellvars, err>>

\* sizes[0,-1] of an array with no column: IndexError
RaiseIndexError ==
    /\ pc = "adjust"
    /\ Len(sizes) = 0
    /\ pc' = "error"
    /\ err' = "IndexError"
    /\ UNCHANGED <<inputs, sizes, c_sizes, X, X_test, tables, k, fold, cellvars>>

\* c_sizes = np.hstack((0,np.cumsum(sizes)))
CumSum ==
    /\ pc = "cumsum"
    /\ c_sizes' = <<0>> \o CumSumSeq(sizes)
    /\ pc' = "alloc"
    /\ UNCHANGED <<inputs, sizes, X, X_test, tables, k, fold, cellvars, err>>

\* 0-based access to the boundaries: c_sizes[f]
C(f) == c_sizes[f + 1]

(***************************************************************************)
(* The sweep over orders and folds.                                        *)
(***************************************************************************)
Slots == (0..(K - 1)) \X (0..max_order)
Tables == {"cv", "ind", "train"}

\* X, X_test = np.ones_like(...); the three np.zeros((K,max_order+1))
Alloc ==
    /\ pc = "alloc"
    /\ X' = OnesLike(x)
    /\ X_test' = OnesLike(x_test)
    /\ cv_loss' = [s \in Slots |-> Zero]
    /\ ind_loss' = [s \in Slots |-> Zero]
    /\ train_loss' = [s \in Slots |-> Zero]
    /\ writes' = [tb \in Tables |-> [s \in Slots |-> 0]]
    /\ k' = 0 /\ fold' = 0
    /\ pc' = "loop"
    /\ UNCHANGED <<inputs, sizes, c_sizes, cellvars, err>>

\* a faulty variant of FoldRows: the slice runs one row too far
FoldRowsOffByOne(M, f) == Slice(M, C(f), C(f + 1) + 1)

\* M[c_sizes[fold]:c_sizes[fold+1]]
FoldRows(M, f) == Slice(M, C(f), C(f + 1))

\* a faulty variant of TrainRows: the held-out rows are not removed
TrainRowsKeepAll(M, f) == M

\* np.delete(M,np.arange(c_sizes[fold],c_sizes[fold+1],1),0)
TrainRows(M, f) == Delete(M, ARange(C(f), C(f + 1)))

\* X.shape[1]
NCols == Len(X[1])

\* np.dot(X_train.T,X_train) of cell (k, f)
NormalMatrix(f) == Gram(TrainRows(X, f), NCols)

\* a faulty variant of SlotOf: the table indexed [k,fold]
SlotSwapped(f, o) == <<o, f>>

\* the index [fold,k] of a loss table
SlotOf(f, o) == <<f, o>>

\* one pass of the inner loop body that runs to its end; w is the solution
\* Reduced(Cramer(A, b), Det(A)) of np.linalg.solve(A, b)
Cell ==
    /\ pc = "loop" /\ k <= max_order /\ fold < K
    /\ \E Xf \in {FoldRows(X, fold)}, Xt \in {TrainRows(X, fold)},
          tf \in {FoldRows(t, fold)}, tt \in {TrainRows(t, fold)} :
       \E A \in {Gram(Xt, NCols)}, b \in {DotT(Xt, tt, NCols)} :
          /\ ~Singular(A)
          /\ \E D \in {Det(A)}, num \in {Cramer(A, b)} :
             \E wv \in {Reduced(num, D)} :
                /\ X_fold' = Xf
                /\ X_train' = Xt
                /\ t_fold' = tf
                /\ t_train' = tt
                /\ w' = wv
                /\ cv_loss' =
                     [cv_loss EXCEPT ![SlotOf(fold, k)] = MSE(Xf, tf, wv)]
                /\ ind_loss' =
                     [ind_loss EXCEPT ![SlotOf(fold, k)] = MSE(X_test, t_test, wv)]
                /\ train_loss' =
                     [train_loss EXCEPT ![SlotOf(fold, k)] = MSE(Xt, tt, wv)]
    /\ writes' = [tb \in Tables |-> [writes[tb] EXCEPT ![SlotOf(fold, k)] = @ + 1]]
    /\ fold' = fold + 1
    /\ UNCHANGED <<inputs, sizes, c_sizes, X, X_test, k, pc, err>>

\* a variant of RaiseLinAlgError: the error is caught, the cell recorded as
\* nan and the sweep continued
RecordSentinel ==
    /\ pc = "loop" /\ k <= max_order /\ fold < K
    /\ \E Xf \in {FoldRows(X, fold)}, Xt \in {TrainRows(X, fold)},
          tf \in {FoldRows(t, fold)}, tt \in {TrainRows(t, fold)} :
          /\ Singular(Gram(Xt, NCols))
          /\ X_fold' = Xf
          /\ X_train' = Xt
          /\ t_fold' = tf
          /\ t_train' = tt
    /\ cv_loss' = [cv_loss EXCEPT ![SlotOf(fold, k)] = NaN]
    /\ ind_loss' = [ind_loss EXCEPT ![SlotOf(fold, k)] = NaN]
    /\ train_loss' = [train_loss EXCEPT ![SlotOf(fold, k)] = NaN]
    /\ writes' = [tb \in Tables |-> [writes[tb] EXCEPT ![SlotOf(fold, k)] = @ + 1]]
    /\ fold' = fold + 1
    /\ UNCHANGED <<inputs, sizes, c_sizes, X, X_test, k, pc, err, w>>

\* np.linalg.solve raises LinAlgError; nothing catches it
RaiseLinAlgError ==
    /\ pc = "loop" /\ k <= max_order /\ fold < K
    /\ \E Xf \in {FoldRows(X, fold)}, Xt \in {TrainRows(X, fold)},
          tf \in {FoldRows(t, fold)}, tt \in {TrainRows(t, fold)} :
          /\ Singular(Gram(Xt, NCols))
          /\ X_fold' = Xf
          /\ X_train' = Xt
          /\ t_fold' = tf
          /\ t_train' = tt
    /\ pc' = "error"
    /\ err' = "LinAlgError"
    /\ UNCHANGED <<inputs, sizes, c_sizes, X, X_test, tables, k, fold, w>>

\* a faulty variant of Extend: the power is taken in place, x **= k+1
ExtendInPlace ==
    /\ pc = "loop" /\ k <= max_order /\ fold = K
    /\ x' = PowCol(x, k + 1)
    /\ X' = HStack(X, x')
    /\ X_test' = HStack(X_test, PowCol(x_test, k + 1))
    /\ k' = k + 1
    /\ fold' = 0
    /\ UNCHANGED <<N, K, max_order, t, N_test, x_test, t_test>>
    /\ UNCHANGED <<sizes, c_sizes, tables, cellvars, pc, err>>

\* end of the inner loop: X = np.hstack((X,x**(k+1))), the same for X_test
Extend ==
    /\ pc = "loop" /\ k <= max_order /\ fold = K
    /\ X' = HStack(X, PowCol(x, k + 1))
    /\ X_test' = HStack(X_test, PowCol(x_test, k + 1))
    /\ k' = k + 1
    /\ fold' = 0
    /\ UNCHANGED <<inputs, sizes, c_sizes, tables, cellvars, pc, err>>

\* range(max_order+1) is exhausted
Finish ==
    /\ pc = "loop" /\ k > max_order
    /\ pc' = "done"
    /\ UNCHANGED <<inputs, sizes, c_sizes, X, X_test, tables, k, fold, cellvars, err>>

Next ==
    \/ Tile
    \/ AdjustLast
    \/ RaiseIndexError
    \/ CumSum
    \/ Alloc
    \/ Cell
    \/ RaiseLinAlgError
    \/ Extend
    \/ Finish

Spec == Init /\ [][Next]_vars

\* the notebook cell, once started, runs on until it ends or raises
FairSpec == Spec /\ WF_vars(Next)

(***************************************************************************)
(* The fold boundaries alone, for larger N and K.                          *)
(***************************************************************************)
InitPart ==
    /\ N \in 1..MaxPartN
    /\ K \in 0..(MaxPartN + 1)
    /\ max_order = 0
    /\ x = XGen(<<1, 0>>, N)
    /\ t = TGen(0, N)
    /\ N_test = MaxNTest
    /\ x_test = XGen(<<1, 0>>, N_test)
    /\ t_test = TGen(1, N_test)
    /\ sizes = <<>> /\ c_sizes = <<>>
    /\ X = <<>> /\ X_test = <<>>
    /\ cv_loss = <<>> /\ ind_loss = <<>> /\ train_loss = <<>>
    /\ writes = <<>>
    /\ k = 0 /\ fold = 0
    /\ X_fold = <<>> /\ X_train = <<>> /\ t_fold = <<>> /\ t_train = <<>>
    /\ w = <<>>
    /\ pc = "tile" /\ err = "none"

NextPart ==
    \/ Tile
    \/ AdjustLast
    \/ RaiseIndexError
    \/ CumSum

SpecPart == InitPart /\ [][NextPart]_vars

(***************************************************************************)
(* Properties.                                                             *)
(***************************************************************************)
ValidFoldCount == 1 <= K /\ K <= N
BoundariesDone == pc = "alloc"
Allocated == writes # <<>>
NoSlotWritten == \A tb \in Tables : \A s \in Slots : writes[tb][s] = 0

\* the indices of [0, N) in the range [c[f], c[f+1]) of fold f (0-based)
FoldIndices(f) == {i \in 0..(N - 1) : C(f) <= i /\ i < C(f + 1)}

\* C1: for 1 <= K <= N the boundaries start at 0, end at N and never
\* decrease, the K ranges [c[f], c[f+1]) have sizes that sum to N, and every
\* index of [0, N) lies in exactly one of them.
C1_FoldsPartition ==
    (BoundariesDone /\ ValidFoldCount) =>
        /\ Len(c_sizes) = K + 1
        /\ C(0) = 0
        /\ C(K) = N
        /\ \A f \in 0..(K - 1) : C(f) <= C(f + 1)
        /\ SeqSum([f \in 1..K |-> Cardinality(C(f - 1)..(C(f) - 1))]) = N
        /\ \A i \in 0..(N - 1) :
              Cardinality({f \in 0..(K - 1) : i \in C(f)..(C(f + 1) - 1)}) = 1

\* C3: for 1 <= K <= N every fold but the last has size floor(N/K) and the
\* last fold has size floor(N/K) + (N mod K).
C3_FoldSizes ==
    (BoundariesDone /\ ValidFoldCount) =>
        /\ \A f \in 1..(K - 1) : sizes[f] = N \div K
        /\ sizes[K] = (N \div K) + (N % K)

\* C5: a fold count outside [1, N] is rejected with InvalidFoldCount before
\* any cell is computed: no cell runs and no loss-table slot is written.
C5_InvalidFoldCountAborts ==
    ~ValidFoldCount =>
        /\ pc \notin {"loop", "done"}
        /\ pc = "error" => err = "InvalidFoldCount"
        /\ Allocated => NoSlotWritten

\* a/b <= c/d for fractions with positive denominators, without products
RECURSIVE FracLeq(_, _, _, _)
FracLeq(a, b, c, d) ==
    IF a \div b # c \div d THEN a \div b < c \div d
    ELSE IF a % b = 0 THEN TRUE
    ELSE IF c % d = 0 THEN FALSE
    ELSE FracLeq(d, c % d, b, a % b)

\* u <= v for two losses; nothing compares with nan
LossLeq(u, v) == u # NaN /\ v # NaN /\ FracLeq(u[1], u[2], v[1], v[2])

Written(tb, f, o) == writes[tb][<<f, o>>] > 0
AllWrittenOnce == \A tb \in Tables : \A s \in Slots : writes[tb][s] = 1

\* C2: with 1 <= K <= N the sweep ends, normally unless a cell is singular;
\* the three tables have exactly the slots (fold, order) of 0..K-1 by
\* 0..max_order, no slot is ever written twice, a written slot keeps its
\* value, and at the normal end every slot has been written exactly once.
C2_EachSlotWrittenOnce ==
    /\ [](Allocated =>
            /\ DOMAIN cv_loss = Slots
            /\ DOMAIN ind_loss = Slots
            /\ DOMAIN train_loss = Slots
            /\ \A tb \in Tables : \A s \in Slots : writes[tb][s] <= 1)
    /\ [](pc = "done" => AllWrittenOnce)
    /\ [][Allocated => \A s \in Slots :
            /\ writes["cv"][s] = 1 =>
                 cv_loss'[s] = cv_loss[s] /\ writes'["cv"][s] = 1
            /\ writes["ind"][s] = 1 =>
                 ind_loss'[s] = ind_loss[s] /\ writes'["ind"][s] = 1
            /\ writes["train"][s] = 1 =>
                 train_loss'[s] = train_loss[s] /\ writes'["train"][s] = 1]_vars
    /\ (ValidFoldCount ~> (pc = "done" \/ err = "LinAlgError"))

\* a sweep of several orders and folds that ran to its end
C2_Witness ==
    pc = "done" /\ ValidFoldCount /\ max_order >= 1 /\ K >= 2 /\ AllWrittenOnce

\* C4 (as stated): with K = 1 nothing raises, and every completed cell has
\* its cross-validation loss equal to its training loss.
C4_SingleFoldCompletes ==
    K = 1 =>
        /\ pc # "error"
        /\ Allocated => \A o \in 0..max_order :
              Written("cv", 0, o) => cv_loss[<<0, o>>] = train_loss[<<0, o>>]

\* C4 (amended): with K = 1 the held-out fold is the whole training set and
\* the training subset is empty, so cell (order 0, fold 0) raises
\* LinAlgError: the run ends there, no cell completes and no slot is written.
C4_SingleFoldRaises ==
    /\ []((K = 1 /\ Allocated) =>
            NoSlotWritten /\ pc # "done" /\ k = 0 /\ fold = 0)
    /\ []((K = 1 /\ pc = "error") =>
            /\ err = "LinAlgError"
            /\ X_fold = X /\ t_fold = t
            /\ X_train = <<>> /\ t_train = <<>>)
    /\ ((K = 1) ~> (pc = "error" /\ err = "LinAlgError"))

\* a run with K = 1 that stopped at its first solve
C4_Witness == K = 1 /\ N >= 2 /\ pc = "error" /\ err = "LinAlgError"

\* the cell (k, fold) about to run has a singular normal-equations matrix
AtSingularCell ==
    /\ pc = "loop" /\ k <= max_order /\ fold < K
    /\ Singular(NormalMatrix(fold))

\* C6 (as stated): a singular cell never aborts the sweep.
C6_SingularCellIsLocal == ~(pc = "error" /\ err = "LinAlgError")

\* C6 (amended): a singular cell (k, f) ends the whole sweep with
\* LinAlgError and writes nothing; the cells before it in processing order
\* keep their losses, and (k, f) and every later cell are never written.
C6_SingularCellAborts ==
    /\ [][AtSingularCell =>
            /\ pc' = "error" /\ err' = "LinAlgError"
            /\ k' = k /\ fold' = fold
            /\ UNCHANGED tables]_vars
    /\ []((pc = "error" /\ err = "LinAlgError") =>
            \A tb \in Tables : \A s \in Slots :
                writes[tb][s] =
                    IF s[2] < k \/ (s[2] = k /\ s[1] < fold) THEN 1 ELSE 0)
    /\ [][pc = "error" => UNCHANGED vars]_vars

\* a singular cell met after earlier cells were recorded
C6_Witness ==
    pc = "error" /\ err = "LinAlgError" /\ k >= 1 /\ fold >= 1

C8_InputsNotMutated ==
    [][/\ inputs' = inputs
       /\ pc = "loop" => UNCHANGED <<sizes, c_sizes>>]_vars

\* the sweep is over and the design matrices have grown
C8_Witness ==
    pc = "done" /\ max_order >= 1 /\ K >= 3 /\ Len(X[1]) = max_order + 2

\* the monomial features [1, v, v^2, ..., v^o] of every entry of v
PolyMatrix(v, o) ==
    [i \in 1..Len(v) |-> [j \in 1..(o + 1) |-> Pow(v[i], j - 1)]]

Extends(M2, M1) ==
    /\ Len(M2) = Len(M1)
    /\ \A i \in 1..Len(M1) :
          Len(M2[i]) = Len(M1[i]) + 1 /\ SubSeq(M2[i], 1, Len(M1[i])) = M1[i]

\* C9: while order k is swept, X and X_test hold the k+1 columns x^0..x^k;
\* the subsets of a cell have k+1 columns; the matrices are the same for all
\* folds of an order; the order advances by one, only after fold K-1, and
\* then each matrix keeps its columns and gains exactly one.
C9_DesignMatrices ==
    /\ []((pc = "loop" /\ k <= max_order) =>
            X = PolyMatrix(x, k) /\ X_test = PolyMatrix(x_test, k))
    /\ [][(pc = "loop" /\ fold' = fold + 1) =>
            /\ X' = X /\ X_test' = X_test /\ k' = k
            /\ \A i \in 1..Len(X_fold') : Len(X_fold'[i]) = k + 1
            /\ \A i \in 1..Len(X_train') : Len(X_train'[i]) = k + 1]_vars
    /\ [][(pc = "loop" /\ k' # k) =>
            /\ fold = K /\ k' = k + 1
            /\ \A tb \in Tables : \A f \in 0..(K - 1) : Written(tb, f, k)
            /\ Extends(X', X) /\ Extends(X_test', X_test)]_vars

\* cells of order 2 processed on three-column matrices
C9_Witness == pc = "loop" /\ k = 2 /\ fold >= 2 /\ Len(X[1]) = 3

\* the rows of M at the 0-based positions S, in increasing position
RowsAt(M, S) ==
    LET nth(j) == CHOOSE i \in S : Cardinality({m \in S : m < i}) = j - 1
    IN  [j \in 1..Cardinality(S) |-> M[nth(j) + 1]]

\* C10: in cell (k, f) the held-out rows are those of the positions of
\* [c[f], c[f+1]) in [0, N), in their order, the training rows those of all
\* other positions, the same positions for X and for t; w solves the normal
\* equations of the training rows, and the three losses are those of that w.
C10_SubsetsAndWeights ==
    [][(pc = "loop" /\ (fold' = fold + 1 \/ pc' = "error")) =>
        LET held == FoldIndices(fold)
            train == (0..(N - 1)) \ held
        IN  /\ X_fold' = RowsAt(X, held) /\ t_fold' = RowsAt(t, held)
            /\ X_train' = RowsAt(X, train) /\ t_train' = RowsAt(t, train)
            /\ fold' = fold + 1 =>
                 LET A == Gram(X_train', k + 1)
                     b == DotT(X_train', t_train', k + 1)
                 IN  /\ w'[2] > 0
                     /\ \A j \in 1..(k + 1) :
                          SeqSum([c \in 1..(k + 1) |-> A[j][c] * w'[1][c]])
                              = w'[2] * b[j]
                     /\ train_loss'[<<fold, k>>] = MSE(X_train', t_train', w')
                     /\ cv_loss'[<<fold, k>>] = MSE(X_fold', t_fold', w')
                     /\ ind_loss'[<<fold, k>>] = MSE(X_test, t_test, w')]_vars

\* a completed cell of order >= 1 with both subsets non-empty
C10_Witness ==
    /\ pc = "loop" /\ k >= 1 /\ fold >= 1
    /\ Len(X_fold) >= 1 /\ Len(X_train) >= 2 /\ Len(X_train) < N
    /\ w # <<>>

====
